---- MODULE Spec2Model ----
(***************************************************************************)
(* Model of src-tauri/src/lib.rs of kb2midi: the tray-driven window state  *)
(* machine.  One operating system runs up to NProcs launches of the        *)
(* program; the launch that acquires the single-instance gate runs the     *)
(* setup closure step by step and then dispatches tray, window and command *)
(* callbacks.  The two toggles of the always_on_top flag run on callback   *)
(* threads, one statement per step, under the flag's Mutex.                *)
(***************************************************************************)
EXTENDS Integers, Sequences, FiniteSets

\* ------------------------------------------------------------------ bounds
NProcs == 2
NCmdThreads == 1
MaxToggles == 3

\* The launches of the program, numbered in the order they happen.
Procs == 1..NProcs

\* The callback threads that run a toggle: thread 0 is the event loop running the
\* tray menu handler, the others run invocations of the command.
Threads == 0..NCmdThreads

IsTray(t) == t = 0

VARIABLES
  proc,           \* per launch: "new", the next startup step, "running", "exited", "aborted"
  exitCode,       \* per launch: -1 while it has not ended, else its exit code
  steps,          \* the setup steps run by the latest holder of the gate, with outcomes
  gateHolders,    \* the launches that hold the single-instance gate
  windows,        \* the launches whose "main" webview window exists
  always_on_top,  \* AppState.always_on_top, the bool inside the Mutex
  lockHolders,    \* the threads that hold a guard of the Mutex, {} when it is free
  visible,        \* the main window is shown
  focused,        \* the main window has input focus
  hint,           \* the window manager's always-on-top hint of the main window
  reported,       \* the focus state the last Focused event told the listener
  tpc,            \* per callback thread: "idle", "lock", "read", "write", "set"
  tmp,            \* per callback thread: the value read by !*always_on_top
  toggles,        \* toggles completed by the running instance
  poisoned,       \* the Mutex is poisoned: a thread panicked while holding a guard
  lastSet,        \* how the latest set_always_on_top call ended: "none", "ok", "err", "panic"
  last            \* the most recent completed callback: what it did and returned

vars == <<proc, exitCode, steps, gateHolders, windows, always_on_top, lockHolders,
          visible, focused, hint, reported, tpc, tmp, toggles, poisoned, lastSet,
          last>>

appVars == <<always_on_top, lockHolders, visible, focused, hint, reported,
             tpc, tmp, toggles, poisoned, lastSet>>

\* ------------------------------------------------------------- records
Call(op, args, ok) == [op |-> op, args |-> args, ok |-> ok]

NoRet == [tag |-> "none", val |-> <<>>]
Ok(val) == [tag |-> "Ok", val |-> val]
Err == [tag |-> "Err", val |-> <<>>]

Event(p, handler, arg, calls, ret, before, after) ==
  [proc |-> p, handler |-> handler, arg |-> arg, calls |-> calls, ret |-> ret,
   before |-> before, after |-> after]

SetLast(p, handler, arg, calls, ret, before, after) ==
  last' = Event(p, handler, arg, calls, ret, before, after)

Step(s, ok) == [s |-> s, ok |-> ok]

\* The order of the setup steps of run(), lines 91-135.
SetupOrder == <<"gate", "state", "window", "listener", "show", "tray">>

\* ---------------------------------------------------------------- Init
Init ==
  /\ proc = [p \in Procs |-> "new"]
  /\ exitCode = [p \in Procs |-> -1]
  /\ steps = <<>>
  /\ gateHolders = {}
  /\ windows = {}
  /\ always_on_top = FALSE
  /\ lockHolders = {}
  /\ visible = FALSE
  /\ focused = FALSE
  /\ hint = FALSE
  /\ reported = FALSE
  /\ tpc = [t \in Threads |-> "idle"]
  /\ tmp = [t \in Threads |-> FALSE]
  /\ toggles = 0
  /\ poisoned = FALSE
  /\ lastSet = "none"
  /\ last = Event(0, "none", <<>>, <<>>, NoRet, <<>>, <<>>)

\* The memory of an instance is gone when its process ends.
ResetApp ==
  /\ always_on_top' = FALSE
  /\ lockHolders' = {}
  /\ visible' = FALSE
  /\ focused' = FALSE
  /\ hint' = FALSE
  /\ reported' = FALSE
  /\ tpc' = [t \in Threads |-> "idle"]
  /\ tmp' = [t \in Threads |-> FALSE]
  /\ toggles' = 0
  /\ poisoned' = FALSE
  /\ lastSet' = "none"

\* Process p ends with exit code `code`: it gives up the gate and its window.
Terminate(p, status, code) ==
  /\ proc' = [proc EXCEPT ![p] = status]
  /\ exitCode' = [exitCode EXCEPT ![p] = code]
  /\ gateHolders' = gateHolders \ {p}
  /\ windows' = windows \ {p}
  /\ ResetApp

\* ------------------------------------------------ window handle facade
\* A handler that asks for the focus and never shows the window.
ShowAndFocusNoShow(p, ok1, ok2) ==
  IF p \in windows
  THEN /\ focused' = (focused \/ ok2)
       /\ UNCHANGED visible
  ELSE /\ ~ok1 /\ ~ok2
       /\ UNCHANGED <<visible, focused>>

\* window.show(); window.set_focus(), both results discarded (let _ = ...), run
\* by the tray "show" entry, the tray left click and the single-instance callback
\* when get_webview_window("main") is Some.
ShowAndFocus(p, ok1, ok2) ==
  IF p \in windows
  THEN /\ visible' = (visible \/ ok1)
       /\ focused' = (focused \/ ok2)
  ELSE /\ ~ok1 /\ ~ok2
       /\ UNCHANGED <<visible, focused>>

ShowAndFocusCalls(p, ok1, ok2) ==
  IF p \in windows
  THEN <<Call("show", <<>>, ok1), Call("set_focus", <<>>, ok2)>>
  ELSE <<>>

\* ------------------------------------------------ single-instance gate
\* A program without the plugin: every launch becomes an instance of its own.
AcquireGateAlways(holders) == TRUE

\* tauri_plugin_single_instance: a launch becomes the primary instance only when
\* no live instance holds the gate.
AcquireGate(holders) == holders = {}

\* A launch that acquires the gate is the primary instance: the plugin is the
\* first thing the builder installs, before any window exists and before the
\* setup closure runs.
Primary(p) ==
  /\ gateHolders' = gateHolders \cup {p}
  /\ proc' = [proc EXCEPT ![p] = "create"]
  /\ steps' = <<Step("gate", TRUE)>>
  /\ SetLast(p, "launch", <<>>, <<>>, NoRet, <<>>, <<>>)
  /\ UNCHANGED <<exitCode, windows, appVars>>

\* The callback given to the plugin, lines 92-97, run in the gate holder q when
\* launch p finds the gate held; the launching process then ends.
single_instance(p, q, ok1, ok2) ==
  /\ ShowAndFocus(q, ok1, ok2)
  /\ proc' = [proc EXCEPT ![p] = "exited"]
  /\ exitCode' = [exitCode EXCEPT ![p] = 0]
  /\ SetLast(q, "single_instance", <<p>>, ShowAndFocusCalls(q, ok1, ok2),
             NoRet, <<>>, <<>>)
  /\ UNCHANGED <<steps, gateHolders, windows, always_on_top, lockHolders, hint,
                 reported, tpc, tmp, toggles, poisoned, lastSet>>

\* run(), lines 90-97 and 140-141, as a process start.
Launch(p) ==
  /\ proc[p] = "new"
  /\ \A q \in Procs : q < p => proc[q] # "new"
  /\ IF AcquireGate(gateHolders)
     THEN Primary(p)
     ELSE \E q \in gateHolders, ok1, ok2 \in BOOLEAN : single_instance(p, q, ok1, ok2)

\* The runtime creates the windows the configuration declares before it calls
\* the setup closure (line 113: "Create main window (it starts hidden as per
\* config)"); w: whether a "main" window is declared, h: its initial
\* always-on-top hint.
create_window(p, w, h) ==
  /\ proc[p] = "create"
  /\ w \/ ~h                    \* no window, no hint
  /\ windows' = IF w THEN windows \cup {p} ELSE windows
  /\ hint' = h
  /\ proc' = [proc EXCEPT ![p] = "log"]
  /\ SetLast(p, "create_window", <<>>, <<>>, NoRet, <<>>, <<>>)
  /\ UNCHANGED <<exitCode, steps, gateHolders, always_on_top, lockHolders,
                 visible, focused, reported, tpc, tmp, toggles, poisoned, lastSet>>

\* ------------------------------------------------------ setup closure
\* A failing setup step ends the launch: the error leaves the closure through ?
\* (or unwrap panics) and run() panics in expect().
Abort(p, s) ==
  /\ Terminate(p, "aborted", 101)
  /\ steps' = Append(steps, Step(s, FALSE))
  /\ SetLast(p, "setup", <<s>>, <<>>, Err, <<>>, <<>>)

Advance(p, s, next) ==
  /\ proc' = [proc EXCEPT ![p] = next]
  /\ steps' = Append(steps, Step(s, TRUE))
  /\ UNCHANGED <<exitCode, gateHolders, windows, last>>

\* lines 99-105: the log plugin, only in a build with debug_assertions (dbg); it
\* is no step of the startup order, only its failure is recorded.
run_log(p, dbg, ok) ==
  /\ proc[p] = "log"
  /\ dbg \/ ok                 \* without the plugin there is nothing to fail
  /\ IF dbg /\ ~ok
     THEN Abort(p, "log")
     ELSE /\ proc' = [proc EXCEPT ![p] = "state"]
          /\ UNCHANGED <<exitCode, steps, gateHolders, windows, last, appVars>>

\* An AppState constructed with false.
InitialAlwaysOnTopFalse == FALSE

\* The value AppState is constructed with, line 109.
InitialAlwaysOnTop == TRUE

\* lines 108-111: app.manage(AppState { always_on_top: Mutex::new(true) }).
run_state(p) ==
  /\ proc[p] = "state"
  /\ Advance(p, "state", "window")
  /\ always_on_top' = InitialAlwaysOnTop
  /\ UNCHANGED <<lockHolders, visible, focused, hint, reported, tpc, tmp, toggles, poisoned, lastSet>>

\* line 114: app.get_webview_window("main").unwrap().
run_window(p) ==
  /\ proc[p] = "window"
  /\ IF p \in windows
     THEN Advance(p, "window", "listener") /\ UNCHANGED appVars
     ELSE Abort(p, "window")

\* lines 117-129: window.on_window_event(...).
run_listener(p) ==
  /\ proc[p] = "listener"
  /\ Advance(p, "listener", "show")
  /\ UNCHANGED appVars

\* A setup that discards the result of show (let _ = window.show()).
run_show_ignore_error(p, ok) ==
  /\ proc[p] = "show"
  /\ proc' = [proc EXCEPT ![p] = "tray"]
  /\ steps' = Append(steps, Step("show", ok))
  /\ visible' = ok
  /\ UNCHANGED <<exitCode, gateHolders, windows, last, always_on_top, lockHolders,
                 focused, hint, reported, tpc, tmp, toggles, poisoned, lastSet>>

\* line 132: window.show()?.
run_show(p, ok) ==
  /\ proc[p] = "show"
  /\ IF ok
     THEN /\ Advance(p, "show", "tray")
          /\ visible' = TRUE
          /\ UNCHANGED <<always_on_top, lockHolders, focused, hint, reported, tpc,
                         tmp, toggles, poisoned, lastSet>>
     ELSE Abort(p, "show")

\* line 135: setup_tray(&app.handle())?.  The tray and its two handlers exist
\* from here on; ok is whether create_tray_menu and build succeeded.
run_tray(p, ok) ==
  /\ proc[p] = "tray"
  /\ IF ok
     THEN Advance(p, "tray", "running") /\ UNCHANGED appVars
     ELSE Abort(p, "tray")

\* ------------------------------------------------------ tray handlers
\* The tray and its handlers exist once setup_tray has run in a live instance.
TrayInstalled(p) == proc[p] = "running"

\* A "show" entry that gives up when show() fails, as ? would.
menu_show_propagate(p, ok1, ok2) ==
  /\ TrayInstalled(p)
  /\ ShowAndFocus(p, ok1, ok1 /\ ok2)
  /\ SetLast(p, "menu", <<"show">>,
             IF p \notin windows THEN <<>>
             ELSE IF ok1 THEN <<Call("show", <<>>, TRUE), Call("set_focus", <<>>, ok2)>>
             ELSE <<Call("show", <<>>, FALSE)>>,
             NoRet, <<>>, <<>>)
  /\ UNCHANGED <<proc, exitCode, steps, gateHolders, windows, always_on_top,
                 lockHolders, hint, reported, tpc, tmp, toggles, poisoned, lastSet>>

\* on_menu_event, "show", lines 51-56.
menu_show(p, ok1, ok2) ==
  /\ TrayInstalled(p)
  /\ ShowAndFocus(p, ok1, ok2)
  /\ SetLast(p, "menu", <<"show">>, ShowAndFocusCalls(p, ok1, ok2), NoRet, <<>>, <<>>)
  /\ UNCHANGED <<proc, exitCode, steps, gateHolders, windows, always_on_top,
                 lockHolders, hint, reported, tpc, tmp, toggles, poisoned, lastSet>>

\* A "quit" entry that falls through to the arm that does nothing.
menu_quit_ignored(p) ==
  /\ TrayInstalled(p)
  /\ SetLast(p, "menu", <<"quit">>, <<>>, NoRet, <<>>, <<>>)
  /\ UNCHANGED <<proc, exitCode, steps, gateHolders, windows, appVars>>

\* on_menu_event, "quit", lines 65-67: app.exit(0).
menu_quit(p) ==
  /\ TrayInstalled(p)
  /\ Terminate(p, "exited", 0)
  /\ SetLast(p, "menu", <<"quit">>, <<>>, NoRet, <<>>, <<>>)
  /\ UNCHANGED steps

\* on_menu_event, any other identifier, line 68: _ => {}.
menu_other(p) ==
  /\ TrayInstalled(p)
  /\ SetLast(p, "menu", <<"other">>, <<>>, NoRet, <<>>, <<>>)
  /\ UNCHANGED <<proc, exitCode, steps, gateHolders, windows, appVars>>

\* The pointer events of the tray glyph: clicks by button and button state, and
\* the events that are no click (Enter, Move, Leave), here button "None".
TrayIconEvents ==
  {<<b, s>> : b \in {"Left", "Right", "Middle"}, s \in {"Up", "Down"}}
    \cup {<<"None", "Move">>}

\* A handler that reacts to the press of the left button, not to its release.
on_tray_icon_event_press(p, ev) ==
  /\ TrayInstalled(p)
  /\ IF ev = <<"Left", "Down">>
     THEN \E ok1, ok2 \in BOOLEAN :
            /\ ShowAndFocus(p, ok1, ok2)
            /\ SetLast(p, "tray_icon", ev, ShowAndFocusCalls(p, ok1, ok2), NoRet,
                       <<>>, <<>>)
     ELSE /\ UNCHANGED <<visible, focused>>
          /\ SetLast(p, "tray_icon", ev, <<>>, NoRet, <<>>, <<>>)
  /\ UNCHANGED <<proc, exitCode, steps, gateHolders, windows, always_on_top,
                 lockHolders, hint, reported, tpc, tmp, toggles, poisoned, lastSet>>

\* A handler that reacts to the release of any button.
on_tray_icon_event_any_button(p, ev) ==
  /\ TrayInstalled(p)
  /\ IF ev[2] = "Up"
     THEN \E ok1, ok2 \in BOOLEAN :
            /\ ShowAndFocus(p, ok1, ok2)
            /\ SetLast(p, "tray_icon", ev, ShowAndFocusCalls(p, ok1, ok2), NoRet,
                       <<>>, <<>>)
     ELSE /\ UNCHANGED <<visible, focused>>
          /\ SetLast(p, "tray_icon", ev, <<>>, NoRet, <<>>, <<>>)
  /\ UNCHANGED <<proc, exitCode, steps, gateHolders, windows, always_on_top,
                 lockHolders, hint, reported, tpc, tmp, toggles, poisoned, lastSet>>

\* on_tray_icon_event, lines 71-83.
on_tray_icon_event(p, ev) ==
  /\ TrayInstalled(p)
  /\ IF ev = <<"Left", "Up">>
     THEN \E ok1, ok2 \in BOOLEAN :
            /\ ShowAndFocus(p, ok1, ok2)
            /\ SetLast(p, "tray_icon", ev, ShowAndFocusCalls(p, ok1, ok2), NoRet,
                       <<>>, <<>>)
     ELSE /\ UNCHANGED <<visible, focused>>
          /\ SetLast(p, "tray_icon", ev, <<>>, NoRet, <<>>, <<>>)
  /\ UNCHANGED <<proc, exitCode, steps, gateHolders, windows, always_on_top,
                 lockHolders, hint, reported, tpc, tmp, toggles, poisoned, lastSet>>

\* ------------------------------------------------------------ commands
\* The content layer that invokes commands lives in the main window.
CanInvoke(p) == proc[p] = "running" /\ p \in windows

\* A show_window that shows the window and never asks for the focus.
show_window_no_focus(p, ok1, ok2) ==
  /\ CanInvoke(p)
  /\ ok1 \/ ~ok2
  /\ visible' = (visible \/ ok1)
  /\ SetLast(p, "show_window", <<>>, <<Call("show", <<>>, ok1)>>,
             IF ok1 THEN Ok(<<>>) ELSE Err, <<>>, <<>>)
  /\ UNCHANGED <<proc, exitCode, steps, gateHolders, windows, always_on_top,
                 lockHolders, focused, hint, reported, tpc, tmp, toggles, poisoned, lastSet>>

\* A show_window that tries show() a second time when it failed.
show_window_retry(p, ok1, ok2) ==
  /\ CanInvoke(p)
  /\ ok1 \/ ~ok2
  /\ visible' = (visible \/ ok1)
  /\ focused' = (focused \/ (ok1 /\ ok2))
  /\ SetLast(p, "show_window", <<>>,
             IF ok1 THEN <<Call("show", <<>>, TRUE), Call("set_focus", <<>>, ok2)>>
                    ELSE <<Call("show", <<>>, FALSE), Call("show", <<>>, FALSE)>>,
             IF ok1 /\ ok2 THEN Ok(<<>>) ELSE Err, <<>>, <<>>)
  /\ UNCHANGED <<proc, exitCode, steps, gateHolders, windows, always_on_top,
                 lockHolders, hint, reported, tpc, tmp, toggles, poisoned, lastSet>>

\* show_window, lines 21-26: each ? returns the error at once (ok2 is the outcome
\* of set_focus, which is called only when show succeeded).
show_window(p, ok1, ok2) ==
  /\ CanInvoke(p)
  /\ ok1 \/ ~ok2
  /\ visible' = (visible \/ ok1)
  /\ focused' = (focused \/ (ok1 /\ ok2))
  /\ SetLast(p, "show_window", <<>>,
             IF ok1 THEN <<Call("show", <<>>, TRUE), Call("set_focus", <<>>, ok2)>>
                    ELSE <<Call("show", <<>>, FALSE)>>,
             IF ok1 /\ ok2 THEN Ok(<<>>) ELSE Err, <<>>, <<>>)
  /\ UNCHANGED <<proc, exitCode, steps, gateHolders, windows, always_on_top,
                 lockHolders, hint, reported, tpc, tmp, toggles, poisoned, lastSet>>

\* ------------------------------------------------------ window events
\* What the listener of lines 118-129 emits on WindowEvent::Focused(f), given the
\* focus state `was` that the previous event reported: it keeps no record of that
\* state.
Emitted(was, f) == <<Call("emit", <<IF f THEN "app-focus" ELSE "app-blur">>, TRUE)>>

on_window_event(p, f) ==
  /\ proc[p] = "running"
  /\ p \in windows
  /\ focused' = f
  /\ reported' = f
  /\ SetLast(p, "window_event", <<f>>, Emitted(reported, f), NoRet,
             <<reported>>, <<f>>)
  /\ UNCHANGED <<proc, exitCode, steps, gateHolders, windows, always_on_top,
                 lockHolders, visible, hint, tpc, tmp, toggles, poisoned, lastSet>>

\* The main window is closed: get_webview_window("main") is None from here on,
\* the None case of lines 52, 58, 78 and 93.
WindowDestroyed(p) ==
  /\ proc[p] = "running"
  /\ p \in windows
  /\ windows' = windows \ {p}
  /\ visible' = FALSE
  /\ focused' = FALSE
  /\ SetLast(p, "destroyed", <<>>, <<>>, NoRet, <<>>, <<>>)
  /\ UNCHANGED <<proc, exitCode, steps, gateHolders, always_on_top, lockHolders,
                 hint, reported, tpc, tmp, toggles, poisoned, lastSet>>

\* ------------------------------------------------------------- toggles
\* The two toggles, toggle_always_on_top (lines 14-19) and the tray entry
\* "always_on_top" (lines 57-64), run the same statements: lock().unwrap(), the
\* read and the write of *always_on_top = !*always_on_top, set_always_on_top, and
\* the drop of the guard at the end of the block.
Started == toggles + Cardinality({t \in Threads : tpc[t] # "idle"})

Begin(t) ==
  /\ tpc[t] = "idle"
  /\ Started < MaxToggles
  /\ tpc' = [tpc EXCEPT ![t] = "lock"]

\* The command is invoked on a callback thread, line 14.
toggle_always_on_top(p, t) ==
  /\ CanInvoke(p)
  /\ ~IsTray(t)
  /\ Begin(t)
  /\ UNCHANGED <<proc, exitCode, steps, gateHolders, windows, always_on_top,
                 lockHolders, visible, focused, hint, reported, tmp, toggles, poisoned, lastSet, last>>

\* An "always_on_top" entry that toggles without looking for the window.
menu_always_on_top_unchecked(p, t) ==
  /\ TrayInstalled(p)
  /\ IsTray(t)
  /\ Begin(t)
  /\ UNCHANGED <<proc, exitCode, steps, gateHolders, windows, always_on_top,
                 lockHolders, visible, focused, hint, reported, tmp, toggles,
                 poisoned, lastSet, last>>

\* on_menu_event, "always_on_top", lines 57-58: nothing is done, and the lock is
\* not taken, when get_webview_window("main") is None.
menu_always_on_top(p, t) ==
  /\ TrayInstalled(p)
  /\ IsTray(t)
  /\ IF p \in windows
     THEN Begin(t) /\ UNCHANGED last
     ELSE /\ tpc[t] = "idle"
          /\ SetLast(p, "menu", <<"always_on_top">>, <<>>, NoRet, <<>>, <<>>)
          /\ UNCHANGED tpc
  /\ UNCHANGED <<proc, exitCode, steps, gateHolders, windows, always_on_top,
                 lockHolders, visible, focused, hint, reported, tmp, toggles, poisoned, lastSet>>

\* A lock that never makes a caller wait.
LockFreeNoMutex(holders) == TRUE

\* Mutex::lock blocks until no thread holds a guard.
LockFree(holders) == holders = {}

\* A lock() whose poison error is ignored: the guard is taken all the same.
toggle_lock_ignore_poison(t) ==
  /\ tpc[t] = "lock"
  /\ LockFree(lockHolders)
  /\ lockHolders' = lockHolders \cup {t}
  /\ tpc' = [tpc EXCEPT ![t] = "read"]
  /\ UNCHANGED <<proc, exitCode, steps, gateHolders, windows, always_on_top,
                 visible, focused, hint, reported, tmp, toggles, poisoned,
                 lastSet, last>>

\* state.always_on_top.lock().unwrap(), lines 15 and 60, when lock() is Ok.
toggle_lock(t) ==
  /\ tpc[t] = "lock"
  /\ ~poisoned
  /\ LockFree(lockHolders)
  /\ lockHolders' = lockHolders \cup {t}
  /\ tpc' = [tpc EXCEPT ![t] = "read"]
  /\ UNCHANGED <<proc, exitCode, steps, gateHolders, windows, always_on_top,
                 visible, focused, hint, reported, tmp, toggles, poisoned, lastSet, last>>

\* The callback a toggle thread runs.
ToggleName(t) == IF IsTray(t) THEN "menu" ELSE "toggle_always_on_top"

\* Thread t panics in a toggle.  A panic on the event loop, which runs the tray
\* handler, ends the process; a panic on a command thread ends that invocation
\* only, and it returns nothing.
Panic(p, t, calls) ==
  /\ SetLast(p, "panic", <<ToggleName(t)>>, calls, NoRet, <<>>, <<>>)
  /\ IF IsTray(t)
     THEN Terminate(p, "aborted", 101) /\ UNCHANGED steps
     ELSE /\ tpc' = [tpc EXCEPT ![t] = "idle"]
          /\ tmp' = [tmp EXCEPT ![t] = FALSE]
          /\ UNCHANGED <<proc, exitCode, steps, gateHolders, windows,
                         always_on_top, visible, focused, hint, reported, toggles>>

\* lock().unwrap(), lines 15 and 60, when the Mutex is poisoned: lock() is Err
\* and unwrap panics; no guard is held and nothing after line 15 or 60 runs.
toggle_lock_panic(p, t) ==
  /\ proc[p] = "running"
  /\ tpc[t] = "lock"
  /\ poisoned
  /\ Panic(p, t, <<>>)
  /\ IsTray(t) \/ UNCHANGED <<lockHolders, poisoned, lastSet>>

\* The read of !*always_on_top, lines 16 and 61.
toggle_read(t) ==
  /\ tpc[t] = "read"
  /\ tmp' = [tmp EXCEPT ![t] = always_on_top]
  /\ tpc' = [tpc EXCEPT ![t] = "write"]
  /\ UNCHANGED <<proc, exitCode, steps, gateHolders, windows, always_on_top,
                 lockHolders, visible, focused, hint, reported, toggles, poisoned, lastSet, last>>

\* The value the toggle stores, given the value it read.
Flip(b) == ~b

\* A write in a block of its own, at whose end the guard is dropped.
toggle_write_release(t) ==
  /\ tpc[t] = "write"
  /\ always_on_top' = Flip(tmp[t])
  /\ lockHolders' = lockHolders \ {t}
  /\ tpc' = [tpc EXCEPT ![t] = "set"]
  /\ UNCHANGED <<proc, exitCode, steps, gateHolders, windows, visible, focused,
                 hint, reported, tmp, toggles, poisoned, lastSet, last>>

\* The write of *always_on_top = ..., lines 16 and 61.
toggle_write(t) ==
  /\ tpc[t] = "write"
  /\ always_on_top' = Flip(tmp[t])
  /\ tpc' = [tpc EXCEPT ![t] = "set"]
  /\ UNCHANGED <<proc, exitCode, steps, gateHolders, windows, lockHolders,
                 visible, focused, hint, reported, tmp, toggles, poisoned, lastSet, last>>

\* A command that returns the new value whatever the window call returned.
ToggleResultIgnoringError(t, ok, value) ==
  IF IsTray(t) THEN NoRet ELSE Ok(<<value>>)

\* What toggle_always_on_top returns, lines 17-18: the error of the window call
\* through ?, else Ok(*always_on_top).  The tray handler returns nothing.
ToggleResult(t, ok, value) ==
  IF IsTray(t) THEN NoRet ELSE (IF ok THEN Ok(<<value>>) ELSE Err)

\* A toggle that puts the old value back when the window call fails.
toggle_set_rollback(p, t, ok) ==
  /\ proc[p] = "running"
  /\ tpc[t] = "set"
  /\ ok => p \in windows
  /\ hint' = IF ok THEN always_on_top ELSE hint
  /\ lockHolders' = lockHolders \ {t}
  /\ tpc' = [tpc EXCEPT ![t] = "idle"]
  /\ tmp' = [tmp EXCEPT ![t] = FALSE]
  /\ toggles' = toggles + 1
  /\ lastSet' = IF ok THEN "ok" ELSE "err"
  /\ UNCHANGED poisoned
  /\ SetLast(p, IF IsTray(t) THEN "menu" ELSE "toggle_always_on_top",
             IF IsTray(t) THEN <<"always_on_top">> ELSE <<>>,
             <<Call("set_always_on_top", <<always_on_top>>, ok)>>,
             ToggleResult(t, ok, always_on_top),
             <<tmp[t]>>, <<always_on_top>>)
  /\ always_on_top' = IF ok THEN always_on_top ELSE tmp[t]
  /\ UNCHANGED <<proc, exitCode, steps, gateHolders, windows, visible, focused,
                 reported>>

\* A toggle that passes the value it read, not the value it wrote.
toggle_set_stale(p, t, ok) ==
  /\ proc[p] = "running"
  /\ tpc[t] = "set"
  /\ ok => p \in windows
  /\ hint' = IF ok THEN tmp[t] ELSE hint
  /\ lockHolders' = lockHolders \ {t}
  /\ tpc' = [tpc EXCEPT ![t] = "idle"]
  /\ tmp' = [tmp EXCEPT ![t] = FALSE]
  /\ toggles' = toggles + 1
  /\ lastSet' = IF ok THEN "ok" ELSE "err"
  /\ UNCHANGED poisoned
  /\ SetLast(p, IF IsTray(t) THEN "menu" ELSE "toggle_always_on_top",
             IF IsTray(t) THEN <<"always_on_top">> ELSE <<>>,
             <<Call("set_always_on_top", <<always_on_top>>, ok)>>,
             ToggleResult(t, ok, always_on_top),
             <<tmp[t]>>, <<always_on_top>>)
  /\ UNCHANGED <<proc, exitCode, steps, gateHolders, windows, always_on_top,
                 visible, focused, reported>>

\* A toggle whose guard is leaked (mem::forget): the lock is never released.
toggle_set_leak(p, t, ok) ==
  /\ proc[p] = "running"
  /\ tpc[t] = "set"
  /\ ok => p \in windows
  /\ hint' = IF ok THEN always_on_top ELSE hint
  /\ UNCHANGED lockHolders
  /\ tpc' = [tpc EXCEPT ![t] = "idle"]
  /\ tmp' = [tmp EXCEPT ![t] = FALSE]
  /\ toggles' = toggles + 1
  /\ lastSet' = IF ok THEN "ok" ELSE "err"
  /\ UNCHANGED poisoned
  /\ SetLast(p, IF IsTray(t) THEN "menu" ELSE "toggle_always_on_top",
             IF IsTray(t) THEN <<"always_on_top">> ELSE <<>>,
             <<Call("set_always_on_top", <<always_on_top>>, ok)>>,
             ToggleResult(t, ok, always_on_top),
             <<tmp[t]>>, <<always_on_top>>)
  /\ UNCHANGED <<proc, exitCode, steps, gateHolders, windows, always_on_top,
                 visible, focused, reported>>

\* window.set_always_on_top(*always_on_top), lines 17 and 62, then the end of the
\* block, where the guard is dropped: lines 18-19 and 63.
toggle_set(p, t, ok) ==
  /\ proc[p] = "running"
  /\ tpc[t] = "set"
  /\ ok => p \in windows
  /\ hint' = IF ok THEN always_on_top ELSE hint
  /\ lockHolders' = lockHolders \ {t}
  /\ tpc' = [tpc EXCEPT ![t] = "idle"]
  /\ tmp' = [tmp EXCEPT ![t] = FALSE]
  /\ toggles' = toggles + 1
  /\ lastSet' = IF ok THEN "ok" ELSE "err"
  /\ UNCHANGED poisoned
  /\ SetLast(p, IF IsTray(t) THEN "menu" ELSE "toggle_always_on_top",
             IF IsTray(t) THEN <<"always_on_top">> ELSE <<>>,
             <<Call("set_always_on_top", <<always_on_top>>, ok)>>,
             ToggleResult(t, ok, always_on_top),
             <<tmp[t]>>, <<always_on_top>>)
  /\ UNCHANGED <<proc, exitCode, steps, gateHolders, windows, always_on_top,
                 visible, focused, reported>>

\* window.set_always_on_top panics at lines 17 and 62, inside the window
\* library: the guard is dropped while the thread unwinds, which poisons the
\* Mutex; the flag keeps the value written at line 16 or 61.
toggle_set_panic(p, t) ==
  /\ proc[p] = "running"
  /\ tpc[t] = "set"
  /\ Panic(p, t, <<Call("set_always_on_top", <<always_on_top>>, FALSE)>>)
  /\ IsTray(t) \/ /\ lockHolders' = lockHolders \ {t}
                  /\ poisoned' = TRUE
                  /\ lastSet' = "panic"

\* ---------------------------------------------------------------- Next
Next ==
  \/ \E p \in Procs : Launch(p)
  \/ \E p \in Procs, w, h \in BOOLEAN : create_window(p, w, h)
  \/ \E p \in Procs, dbg, ok \in BOOLEAN : run_log(p, dbg, ok)
  \/ \E p \in Procs : run_state(p)
  \/ \E p \in Procs : run_window(p)
  \/ \E p \in Procs : run_listener(p)
  \/ \E p \in Procs, ok \in BOOLEAN : run_show(p, ok)
  \/ \E p \in Procs, ok \in BOOLEAN : run_tray(p, ok)
  \/ \E p \in Procs, ok1, ok2 \in BOOLEAN : menu_show(p, ok1, ok2)
  \/ \E p \in Procs : menu_quit(p)
  \/ \E p \in Procs : menu_other(p)
  \/ \E p \in Procs, ev \in TrayIconEvents : on_tray_icon_event(p, ev)
  \/ \E p \in Procs, ok1, ok2 \in BOOLEAN : show_window(p, ok1, ok2)
  \/ \E p \in Procs, f \in BOOLEAN : on_window_event(p, f)
  \/ \E p \in Procs : WindowDestroyed(p)
  \/ \E p \in Procs, t \in Threads : toggle_always_on_top(p, t)
  \/ \E p \in Procs, t \in Threads : menu_always_on_top(p, t)
  \/ \E t \in Threads : toggle_lock(t)
  \/ \E t \in Threads : toggle_read(t)
  \/ \E t \in Threads : toggle_write(t)
  \/ \E p \in Procs, t \in Threads, ok \in BOOLEAN : toggle_set(p, t, ok)
  \/ \E p \in Procs, t \in Threads : toggle_lock_panic(p, t)
  \/ \E p \in Procs, t \in Threads : toggle_set_panic(p, t)

Spec == Init /\ [][Next]_vars

\* Fair scheduling of the callback threads: a thread that can run its next
\* statement does run it, and a thread that waits in lock() gets the guard if
\* the Mutex is free again and again (the lock step of a poisoned Mutex is the
\* panic of unwrap).  The outcome of the window call is left open.
ThreadFairness(t) ==
  /\ SF_vars(toggle_lock(t))
  /\ WF_vars(\E p \in Procs : toggle_lock_panic(p, t))
  /\ WF_vars(toggle_read(t))
  /\ WF_vars(toggle_write(t))
  /\ WF_vars(\E p \in Procs, ok \in BOOLEAN : toggle_set(p, t, ok))

\* The steps that start, run, end or cut short a toggle: the launches and the
\* setup that lead to a running instance, the two toggles statement by
\* statement, and the events that end the instance or take its window away.
\* The callbacks left out (show and focus requests, pointer and focus events,
\* unknown menu entries) touch neither the lock nor a toggle thread.
ToggleNext ==
  \/ \E p \in Procs : Launch(p)
  \/ \E p \in Procs, w, h \in BOOLEAN : create_window(p, w, h)
  \/ \E p \in Procs, dbg, ok \in BOOLEAN : run_log(p, dbg, ok)
  \/ \E p \in Procs : run_state(p)
  \/ \E p \in Procs : run_window(p)
  \/ \E p \in Procs : run_listener(p)
  \/ \E p \in Procs, ok \in BOOLEAN : run_show(p, ok)
  \/ \E p \in Procs, ok \in BOOLEAN : run_tray(p, ok)
  \/ \E p \in Procs : menu_quit(p)
  \/ \E p \in Procs : WindowDestroyed(p)
  \/ \E p \in Procs, t \in Threads : toggle_always_on_top(p, t)
  \/ \E p \in Procs, t \in Threads : menu_always_on_top(p, t)
  \/ \E t \in Threads : toggle_lock(t)
  \/ \E t \in Threads : toggle_read(t)
  \/ \E t \in Threads : toggle_write(t)
  \/ \E p \in Procs, t \in Threads, ok \in BOOLEAN : toggle_set(p, t, ok)
  \/ \E p \in Procs, t \in Threads : toggle_lock_panic(p, t)
  \/ \E p \in Procs, t \in Threads : toggle_set_panic(p, t)

FairSpec == Init /\ [][ToggleNext]_vars /\ \A t \in Threads : ThreadFairness(t)

\* ================================================================ claims
Idle == \A t \in Threads : tpc[t] = "idle"

\* No thread stands between its write of the flag and the end of its toggle.
NoPendingWrite == \A t \in Threads : tpc[t] # "set"

Xor(a, b) == a # b

IsTrayToggle == last.handler = "menu" /\ last.arg = <<"always_on_top">>
IsCmdToggle == last.handler = "toggle_always_on_top"

\* C1: whenever the running instance has no toggle in progress and its lock is
\* not poisoned, the flag is its initial value XOR (N mod 2), N the number of
\* toggles the command and the tray entry have completed, whatever the
\* interleaving of their steps was.
C1_NoLostToggle ==
  \A p \in Procs :
    (proc[p] = "running" /\ Idle /\ ~poisoned) =>
      always_on_top = Xor(InitialAlwaysOnTop, toggles % 2 = 1)

C1_Witness ==
  \E p \in Procs :
    /\ proc[p] = "running" /\ Idle /\ toggles = 2
    /\ always_on_top = InitialAlwaysOnTop

C3_ToggleResult ==
  IsCmdToggle =>
    /\ Len(last.calls) = 1
    /\ last.calls[1].op = "set_always_on_top"
    /\ (last.ret.tag = "Ok") = last.calls[1].ok
    /\ last.calls[1].ok =>
         /\ last.ret.val = <<~last.before[1]>>
         /\ last.ret.val = last.after
         /\ last.ret.val = last.calls[1].args
         /\ (NoPendingWrite => always_on_top = last.ret.val[1])
    /\ ~last.calls[1].ok => last.ret = Err

C3_Witness ==
  /\ IsCmdToggle
  /\ last.ret = Ok(<<FALSE>>)
  /\ last.before = <<TRUE>>
  /\ ~always_on_top /\ ~hint

FailedToggle ==
  /\ IsTrayToggle \/ IsCmdToggle
  /\ Len(last.calls) = 1
  /\ ~last.calls[1].ok

ShowWindowOk == last.handler = "show_window" /\ last.ret.tag = "Ok"

Dispatched(p) ==
  \/ \E ok1, ok2 \in BOOLEAN : menu_show(p, ok1, ok2)
  \/ menu_quit(p)
  \/ menu_other(p)
  \/ \E ev \in TrayIconEvents : on_tray_icon_event(p, ev)
  \/ \E ok1, ok2 \in BOOLEAN : show_window(p, ok1, ok2)
  \/ \E f \in BOOLEAN : on_window_event(p, f)
  \/ WindowDestroyed(p)
  \/ \E t \in Threads : toggle_always_on_top(p, t)
  \/ \E t \in Threads : menu_always_on_top(p, t)
  \/ \E t \in Threads, ok \in BOOLEAN : toggle_set(p, t, ok)
  \/ \E t \in Threads : toggle_lock_panic(p, t)
  \/ \E t \in Threads : toggle_set_panic(p, t)
  \/ \E q \in Procs, ok1, ok2 \in BOOLEAN : single_instance(q, p, ok1, ok2)

QuitSelected == last.handler = "menu" /\ last.arg = <<"quit">>

\* C6: the tray "quit" entry ends the process with exit code 0, and an instance
\* that has ended stays ended: no callback is dispatched in it, and it holds no
\* gate, no window and no toggle in progress.
C6_Quit ==
  /\ [](QuitSelected =>
          /\ proc[last.proc] = "exited" /\ exitCode[last.proc] = 0
          /\ last.proc \notin gateHolders /\ last.proc \notin windows
          /\ (gateHolders = {} => (Idle /\ lockHolders = {})))
  /\ [][\A p \in Procs :
          proc[p] = "exited" =>
            /\ proc'[p] = "exited" /\ exitCode'[p] = exitCode[p]
            /\ p \notin gateHolders' /\ p \notin windows'
            /\ ~Dispatched(p)]_vars

C6_Witness ==
  /\ QuitSelected
  /\ proc[last.proc] = "exited" /\ exitCode[last.proc] = 0
  /\ gateHolders = {}

SecondLaunch == last.handler = "single_instance"

\* C7 as stated: a launch that finds the gate held creates no window, the
\* holder's main window is then visible and focused, and the launching process
\* has ended.
C7_WindowShownAndFocused ==
  SecondLaunch =>
    /\ last.arg[1] \notin windows /\ Cardinality(windows) <= 1
    /\ proc[last.arg[1]] = "exited"
    /\ visible /\ focused

\* C7 amended: such a launch creates no window and ends; when the holder's main
\* window exists the callback calls show() and then set_focus() on it, and the
\* window is visible if show() succeeded and focused if set_focus() succeeded;
\* when the holder has no main window the callback calls nothing.
C7_SecondLaunch ==
  SecondLaunch =>
    /\ last.arg[1] \notin windows /\ Cardinality(windows) <= 1
    /\ proc[last.arg[1]] = "exited"
    /\ last.proc \in gateHolders /\ last.proc # last.arg[1]
    /\ IF last.proc \in windows
       THEN /\ Len(last.calls) = 2
            /\ last.calls[1].op = "show" /\ last.calls[2].op = "set_focus"
            /\ last.calls[1].ok => visible
            /\ last.calls[2].ok => focused
       ELSE last.calls = <<>> /\ ~visible /\ ~focused

C7_Witness ==
  /\ SecondLaunch
  /\ last.calls = <<Call("show", <<>>, TRUE), Call("set_focus", <<>>, TRUE)>>
  /\ proc[last.proc] = "running" /\ proc[last.arg[1]] = "exited"
  /\ windows = {last.proc} /\ visible /\ focused

\* C8: in every reachable state at most one launch holds the single-instance
\* gate and at most one main window exists, that of the gate's holder.
C8_SingleInstance ==
  /\ Cardinality(gateHolders) <= 1
  /\ Cardinality(windows) <= 1
  /\ windows \subseteq gateHolders

C8_Witness ==
  \E p, q \in Procs :
    /\ p # q /\ proc[p] = "exited" /\ exitCode[p] = 0
    /\ gateHolders = {q} /\ windows = {q} /\ proc[q] = "running"

\* C9: a Focused event emits a notification exactly when it changes the focus
\* state the events have reported, so that notifications and transitions are
\* equal in number over every sequence of events.
C9_NotificationsAreTransitions ==
  last.handler = "window_event" =>
    Len(last.calls) = (IF last.before # last.after THEN 1 ELSE 0)

StepNames == [i \in 1..Len(steps) |-> steps[i].s]

Failed == Len(steps) > 0 /\ ~steps[Len(steps)].ok

Done(s) == \E i \in 1..Len(steps) : steps[i] = Step(s, TRUE)

\* The setup steps done when the closure stands before step pc.
StepsBefore(pc) ==
  CASE pc \in {"create", "log", "state"} -> 1
    [] pc = "window" -> 2
    [] pc = "listener" -> 3
    [] pc = "show" -> 4
    [] pc = "tray" -> 5
    [] pc = "running" -> 6

\* C10: the setup steps run in the order gate, state, window, listener, show,
\* tray; a step that fails is the last one run (the launch is aborted and holds
\* nothing), so the tray is installed only after show() succeeded, and an
\* instance dispatches callbacks only after all six steps succeeded.
C10_StartupOrder ==
  /\ \A i \in 1..Len(steps) :
       IF steps[i].ok
       THEN steps[i].s = SetupOrder[i]
       ELSE /\ i = Len(steps)
            /\ steps[i].s \in {"log", "window", "show", "tray"}
            /\ steps[i].s = "log" \/ steps[i].s = SetupOrder[i]
  /\ Failed => (gateHolders = {} /\ \A p \in Procs : proc[p] \in {"new", "exited", "aborted"})
  /\ \A p \in gateHolders :
       /\ ~Failed
       /\ proc[p] \in {"create", "log", "state", "window", "listener", "show", "tray",
                     "running"}
       /\ Len(steps) = StepsBefore(proc[p])
       /\ TrayInstalled(p) => (Done("show") /\ Done("tray"))
  /\ \A p \in Procs : proc[p] = "aborted" => exitCode[p] # 0

C10_Witness ==
  /\ StepNames = <<"gate", "state", "window", "listener", "show">>
  /\ Failed
  /\ \E p \in Procs : proc[p] = "aborted" /\ last = Event(p, "setup", <<"show">>, <<>>, Err, <<>>, <<>>)
  /\ gateHolders = {}

\* The threads that are between lock() and the end of the toggle's block.
InBlock(t) == tpc[t] \in {"read", "write", "set"}

\* C11, as stated: the lock is released before the set_always_on_top call, so
\* no thread that is about to make the call, or is making it, holds the lock.
C11_LockReleasedBeforeCall ==
  \A t \in Threads : tpc[t] = "set" => t \notin lockHolders

\* C11, amended: a toggle holds the lock from lock() to the end of its block,
\* the set_always_on_top call included; the guard is dropped in the step in
\* which the call returns, in the command and in the tray handler alike.
C11_LockHeldThroughCall ==
  /\ [](\A t \in Threads : t \in lockHolders <=> InBlock(t))
  /\ [][\A p \in Procs, t \in Threads, ok \in BOOLEAN :
         toggle_set(p, t, ok) => (t \in lockHolders /\ t \notin lockHolders')]_vars

C11_Witness ==
  \E t, u \in Threads :
    /\ ~IsTray(t) /\ tpc[t] = "set" /\ t \in lockHolders
    /\ IsTray(u) /\ tpc[u] = "lock"

\* The instance that is running before and after a step.
StaysRunning == \E p \in Procs : proc[p] = "running" /\ proc'[p] = "running"

\* C12, as stated: in a running instance every change of the flag is made by
\* the tray "always_on_top" handler.
C12_TraySoleWriter ==
  [][(StaysRunning /\ always_on_top' # always_on_top) =>
       \E t \in Threads : IsTray(t) /\ toggle_write(t)]_vars

\* C12, amended: in a running instance every change of the flag is the write of
\* a toggle, run by the tray "always_on_top" handler or by the
\* toggle_always_on_top command, and it stores the negation of the flag.
C12_TogglesSoleWriters ==
  [][(StaysRunning /\ always_on_top' # always_on_top) =>
       \E t \in Threads : toggle_write(t) /\ always_on_top' = ~always_on_top]_vars

C12_Witness ==
  \E p \in Procs, t \in Threads :
    /\ proc[p] = "running" /\ ~IsTray(t) /\ tpc[t] = "set"
    /\ toggles = 0 /\ always_on_top # InitialAlwaysOnTop

MenuShowSelected == last.handler = "menu" /\ last.arg = <<"show">>

\* C13: the tray "show" entry calls show() and then set_focus() on the main
\* window whatever show() returned, returns nothing, and leaves the process
\* alive and the flag, the hint and the lock as they were.
C13_TrayShow ==
  /\ [](MenuShowSelected =>
          /\ last.ret = NoRet
          /\ \/ last.calls = <<>>
             \/ /\ Len(last.calls) = 2
                /\ last.calls[1].op = "show"
                /\ last.calls[2].op = "set_focus")
  /\ [][\A p \in Procs, ok1, ok2 \in BOOLEAN :
         menu_show(p, ok1, ok2) =>
           /\ UNCHANGED <<proc, exitCode, always_on_top, hint, lockHolders, tpc,
                          poisoned>>
           /\ p \in windows =>
                /\ last'.calls = <<Call("show", <<>>, ok1), Call("set_focus", <<>>, ok2)>>
                /\ visible' = (visible \/ ok1)
                /\ focused' = (focused \/ ok2)]_vars

C13_Witness ==
  /\ MenuShowSelected
  /\ Len(last.calls) = 2
  /\ ~last.calls[1].ok /\ last.calls[2].ok
  /\ proc[last.proc] = "running" /\ focused

ShowWindowCalled == last.handler = "show_window"

\* C14: show_window returns Err after a failed show() without a set_focus()
\* call, returns Err after a failed set_focus() with the window shown, and no
\* command repeats a window call: show_window makes at most one show() and one
\* set_focus(), toggle_always_on_top exactly one set_always_on_top.
C14_CommandErrors ==
  /\ [](ShowWindowCalled =>
          /\ last.calls[1].op = "show"
          /\ IF ~last.calls[1].ok
             THEN Len(last.calls) = 1 /\ last.ret = Err
             ELSE /\ Len(last.calls) = 2
                  /\ last.calls[2].op = "set_focus"
                  /\ last.ret = (IF last.calls[2].ok THEN Ok(<<>>) ELSE Err))
  /\ [](IsCmdToggle =>
          /\ Len(last.calls) = 1
          /\ last.calls[1].op = "set_always_on_top"
          /\ ~last.calls[1].ok => last.ret = Err)
  /\ [][\A p \in Procs : show_window(p, TRUE, FALSE) =>
          (visible' /\ focused' = focused /\ last'.ret = Err)]_vars

C14_Witness ==
  /\ ShowWindowCalled
  /\ Len(last.calls) = 2 /\ ~last.calls[2].ok
  /\ last.ret = Err /\ visible /\ ~focused

\* The latest callback panicked in lock().unwrap(), before any window call.
PanickedAtLock == last.handler = "panic" /\ last.calls = <<>>

\* C15: while the lock is poisoned no toggle gets past lock(): no thread is in
\* the block, the flag and the hint keep their values, and an invocation that
\* finds the lock poisoned panics, with no write, no window call and no return
\* value; on the event loop the panic ends the process with a panic's code.
C15_PoisonedLock ==
  /\ [](poisoned => (lockHolders = {} /\ \A t \in Threads : ~InBlock(t)))
  /\ [](PanickedAtLock => last.ret = NoRet)
  /\ [][(poisoned /\ poisoned') =>
          (always_on_top' = always_on_top /\ hint' = hint /\ toggles' = toggles)]_vars
  /\ [][\A p \in Procs, t \in Threads :
         toggle_lock_panic(p, t) =>
           /\ last'.calls = <<>> /\ last'.ret = NoRet
           /\ IF IsTray(t)
              THEN proc'[p] = "aborted" /\ exitCode'[p] = 101
              ELSE /\ tpc'[t] = "idle"
                   /\ UNCHANGED <<always_on_top, hint, toggles, lockHolders,
                                  poisoned, proc>>]_vars

C15_Witness ==
  /\ PanickedAtLock
  /\ last.arg = <<"toggle_always_on_top">>
  /\ poisoned /\ Idle
  /\ proc[last.proc] = "running"

LeftUp == <<"Left", "Up">>

\* What lines 51-56 do in instance p, ok1 and ok2 the outcomes of show() and
\* set_focus(): the effect on everything but the name of the callback.
ShowEntryEffect(p, ok1, ok2) ==
  /\ IF p \in windows
     THEN /\ visible' = (visible \/ ok1)
          /\ focused' = (focused \/ ok2)
          /\ last'.calls = <<Call("show", <<>>, ok1), Call("set_focus", <<>>, ok2)>>
     ELSE /\ UNCHANGED <<visible, focused>>
          /\ last'.calls = <<>>
  /\ last'.proc = p /\ last'.ret = NoRet
  /\ UNCHANGED <<proc, exitCode, steps, gateHolders, windows, always_on_top,
                 lockHolders, hint, reported, tpc, tmp, toggles, poisoned, lastSet>>

\* C16: a left-button release on the tray glyph and a selection of the "show"
\* entry have the same effects from the same state: each step of either is a
\* step of show() then set_focus() with the results discarded, for the same
\* outcomes of the two calls, and the flag is unchanged.
C16_LeftClickIsShow ==
  [][\A p \in Procs :
       /\ on_tray_icon_event(p, LeftUp) =>
            \E ok1, ok2 \in BOOLEAN : ShowEntryEffect(p, ok1, ok2)
       /\ \A ok1, ok2 \in BOOLEAN :
            menu_show(p, ok1, ok2) => ShowEntryEffect(p, ok1, ok2)]_vars

C16_Witness ==
  /\ last.handler = "tray_icon" /\ last.arg = LeftUp
  /\ Len(last.calls) = 2
  /\ ~last.calls[1].ok /\ last.calls[2].ok
  /\ focused /\ always_on_top = InitialAlwaysOnTop

\* C17: a menu event with an unknown identifier and a pointer event that is no
\* left-button release make no window call and change nothing: not the flag,
\* the visibility, the focus or the hint, and the process keeps running.
C17_UnhandledInput ==
  [][\A p \in Procs :
       (menu_other(p) \/ \E ev \in TrayIconEvents \ {LeftUp} : on_tray_icon_event(p, ev))
         => /\ last'.calls = <<>>
            /\ UNCHANGED <<proc, exitCode, gateHolders, windows, appVars>>]_vars

C17_Witness ==
  /\ last.handler = "tray_icon" /\ last.arg = <<"Left", "Down">>
  /\ last.proc \in windows /\ proc[last.proc] = "running"
  /\ visible /\ ~focused /\ toggles = 1

\* C18: when no toggle is in progress and the latest set_always_on_top call of
\* the instance succeeded, the hint equals the flag; so after at least one
\* toggle the two differ, with no toggle in progress, only after a call that
\* failed.
C18_HintFollowsFlag ==
  /\ (Idle /\ lastSet = "ok") => hint = always_on_top
  /\ toggles >= 1 => lastSet # "none"
  /\ (Idle /\ toggles >= 1 /\ hint # always_on_top) => lastSet \in {"err", "panic"}

C18_Witness ==
  /\ Idle /\ lastSet = "ok" /\ toggles = 2
  /\ IsCmdToggle /\ last.before = <<FALSE>>
  /\ hint /\ always_on_top

\* C19: under fair scheduling every toggle invocation ends, and every guard is
\* released, however many toggles of the tray handler and of the command run
\* at once; at most one thread holds the lock, the holder is a thread that can
\* take its next step, and no thread that waits in lock() holds the lock.
C19_TogglesComplete ==
  /\ [](Cardinality(lockHolders) <= 1)
  /\ [](\A t \in Threads : t \in lockHolders => InBlock(t))
  /\ [](\A t \in Threads : tpc[t] = "lock" => t \notin lockHolders)
  /\ \A t \in Threads : (tpc[t] = "lock") ~> (tpc[t] = "idle")
  /\ \A t \in Threads : (t \in lockHolders) ~> (t \notin lockHolders)
  /\ (lockHolders # {}) ~> (lockHolders = {})

C19_Witness ==
  \E t, u \in Threads :
    /\ IsTray(t) /\ tpc[t] = "set" /\ t \in lockHolders
    /\ ~IsTray(u) /\ tpc[u] = "lock"
    /\ toggles = 1

WindowlessCallback(p) ==
  \/ \E ok1, ok2 \in BOOLEAN : menu_show(p, ok1, ok2)
  \/ \E t \in Threads : menu_always_on_top(p, t)
  \/ on_tray_icon_event(p, LeftUp)
  \/ \E q \in Procs, ok1, ok2 \in BOOLEAN : single_instance(q, p, ok1, ok2)

\* C20: when the main window of instance p is not found, the tray "show" and
\* "always_on_top" entries, the tray left click and the single-instance
\* callback make no window call and change nothing in p: the flag is not
\* flipped, no thread starts a toggle or takes the lock, and p keeps running.
C20_NoWindowNoEffect ==
  [][\A p \in Procs :
       (p \notin windows /\ WindowlessCallback(p)) =>
         /\ last'.proc = p /\ last'.calls = <<>> /\ last'.ret = NoRet
         /\ proc'[p] = proc[p] /\ exitCode'[p] = exitCode[p]
         /\ UNCHANGED <<gateHolders, windows, appVars>>]_vars

C20_Witness ==
  /\ IsTrayToggle /\ last.calls = <<>>
  /\ last.proc \notin windows /\ proc[last.proc] = "running"
  /\ poisoned /\ Idle /\ lockHolders = {}

====
